---- MODULE Spec2Model ----
(***************************************************************************)
(* The grafana_team resource of terraform-provider-grafana                 *)
(* (grafana/resource_team.go): the CRUD handlers and the reconciliation of *)
(* the team's members (UpdateTeamMembers = collectTeamUsers, teamChanges,  *)
(* addIdsToTeamChanges, applyTeamChanges) against a remote Grafana.        *)
(*                                                                         *)
(* Every remote call is one step of the resource that issues it, so that   *)
(* the calls of two resources interleave.  A Go map is ranged over in an   *)
(* unspecified order: teamChanges yields every order the ranges can take.  *)
(***************************************************************************)
EXTENDS Naturals, Sequences, FiniteSets, TLC

(* ------------------------------ bounds --------------------------------- *)

\* longest "users" list of a configuration or of a recorded state
MaxLen == 2
\* number of teams the remote ever creates
MaxTeams == 2
\* number of changes another actor makes to the remote between handlers
MaxDrift == 1

Emails == {"a@x.com", "b@x.com", "c@x.com"}
Names == {"team", "team-update"}
TeamEmails == {"", "t@local.host"}
Res == {1, 2}

(* ------------------------------ values --------------------------------- *)

\* ChangeType, declared beside the organization resource
Add == "Add"
Remove == "Remove"
Update == "Update"

\* a nil error
Nil == "nil"
Conflict == "409 Conflict"
NotFound == "404 Not Found"
ServerError == "500 Internal Server Error"

\* d.Get of a key the schema does not declare
NoValue == "<nil>"

Range(s) == {s[i] : i \in DOMAIN s}

Lists(S, n) == UNION {[1..k -> S] : k \in 0..n}

\* the orders in which a range over a Go map can visit the set S
Orders(S) == {s \in [1..Cardinality(S) -> S] : Range(s) = S}

TeamUser(id, email) == [Id |-> id, Email |-> email]

UserTeamChange(type, user) == [Type |-> type, User |-> user]

\* strconv.FormatInt(n, 10) for n >= 0: the decimal digits, most significant first
RECURSIVE FormatInt(_)
FormatInt(n) == IF n < 10 THEN <<n>> ELSE Append(FormatInt(n \div 10), n % 10)

\* strconv.ParseInt(s, 10, 64) with the error dropped: 0 for the empty string
RECURSIVE ParseDigits(_, _)
ParseDigits(s, acc) ==
    IF s = <<>> THEN acc ELSE ParseDigits(Tail(s), acc * 10 + Head(s))

ParseInt(s) == IF s = <<>> THEN 0 ELSE ParseDigits(s, 0)

(* --------------------------- the program state ------------------------- *)

VARIABLES
    users,    \* remote directory: email -> user id, 0 when there is no such user
    teams,    \* remote teams: team id -> [exists, name, email, members (user ids)]
    d,        \* schema.ResourceData of each resource: id, recorded state, configuration
    pc,       \* position of each resource's handler
    op,       \* the handler each resource runs, or ran last
    loc,      \* locals of the running handler: changes, gUserMap, output, index, teamId
    ret,      \* what the last handler returned
    log,      \* remote calls the current (or last) handler issued, with their answers
    start,    \* remote membership and directory as they were when the handler started,
              \* and, when the caller repeats UpdateTeamMembers, the first change list
    applied,  \* the users list of each resource's last handler when that was a
              \* successful Create or Update started from the team's membership,
              \* and nobody else touched the team since
    drift,    \* changes made by another actor so far
    flaky     \* whether the remote can fail a call it could have served

vars == <<users, teams, d, pc, op, loc, ret, log, start, applied, drift, flaky>>

TeamIds == 1..MaxTeams

NoTeam == [exists |-> FALSE, used |-> FALSE, name |-> "", email |-> "", members |-> {}]

EmptyMap == [e \in {} |-> 0]

NoState == [name |-> "", email |-> "", users |-> <<>>]

NoLoc == [changes |-> <<>>, gUserMap |-> EmptyMap, output |-> <<>>, idx |-> 0, teamId |-> 0]

NoConfig == [name |-> "", email |-> "", create_users |-> TRUE, users |-> <<>>]

NoData == [id |-> <<>>, state |-> NoState, config |-> NoConfig]

NoRet == [err |-> Nil, exists |-> FALSE]

NoStart ==
    [members |-> {}, users |-> [e \in Emails |-> 0], synced |-> FALSE,
     alone |-> FALSE, again |-> FALSE, changes |-> <<>>]

NoApplied == [applied |-> FALSE, users |-> <<>>]

\* one list for each set of at most MaxLen users
MemberSets ==
    {CHOOSE list \in Orders(S) : TRUE :
        S \in {T \in SUBSET Emails : Cardinality(T) <= MaxLen}}

\* configurations of two resources that are reconciled at the same time
SharedConfigs ==
    [name : {"team"}, email : {""}, create_users : BOOLEAN, users : MemberSets]

\* configurations that differ in the members
MemberConfigs ==
    [name : {"team"}, email : {""}, create_users : BOOLEAN, users : Lists(Emails, MaxLen)]

\* user ids the directory holds
UserIds == {users[e] : e \in {x \in Emails : users[x] # 0}}

\* the directory user with id i
EmailOf(i) == CHOOSE e \in Emails : users[e] = i

TeamExists(t) == t \in TeamIds /\ teams[t].exists

MembersOf(t) == IF TeamExists(t) THEN teams[t].members ELSE {}

MemberEmails(t) == {EmailOf(i) : i \in MembersOf(t)}

Call(name, team, arg, resp) == [call |-> name, team |-> team, arg |-> arg, resp |-> resp]

(* ------------------------------ the remote ----------------------------- *)

\* the id the remote gives the next team
NextTeamId == Cardinality({t \in TeamIds : teams[t].used}) + 1

\* client.AddTeam(name, email): the name is taken, or the team is created, or the
\* call fails
\* a call the remote can serve succeeds, or fails when the remote is flaky
Served == IF flaky THEN {Nil, ServerError} ELSE {Nil}

AddTeamAnswers(name) ==
    IF \E t \in TeamIds : teams[t].exists /\ teams[t].name = name
    THEN {Conflict} ELSE Served

\* client.Team(teamId), client.UpdateTeam, client.DeleteTeam, client.TeamMembers
TeamAnswers(t) == IF TeamExists(t) THEN Served ELSE {NotFound}

\* client.Users(): the whole directory, or an error
UsersAnswers == Served

\* gUserMap as addIdsToTeamChanges builds it from the directory listing
GUserMap == [e \in {x \in Emails : users[x] # 0} |-> users[e]]

\* createUser(meta, email): a user with this email exists already, or the call
\* succeeds with a fresh id, or it fails
CreateUserAnswers(email) ==
    IF users[email] # 0 THEN {Conflict} ELSE Served

NewUserId == Cardinality(UserIds) + 1

\* client.AddTeamMember(teamId, userId)
AddTeamMemberAnswers(t, uid) ==
    IF ~TeamExists(t) \/ uid \notin UserIds THEN {NotFound}
    ELSE IF uid \in teams[t].members THEN {Conflict}
    ELSE Served

\* client.RemoveMemberFromTeam(teamId, userId)
RemoveMemberAnswers(t, uid) ==
    IF ~TeamExists(t) \/ uid \notin UserIds THEN {NotFound}
    ELSE IF uid \notin teams[t].members THEN {Conflict}
    ELSE Served

(* ----------------------- the reconciliation's functions ---------------- *)

DuplicateError(email) ==
    "Error: User '" \o email \o "' cannot be specified multiple times."

UnknownUserError(email) ==
    "Error adding user " \o email \o ". User does not exist in Grafana."

TeamExistsError(name, teamID) ==
    "Error: A Grafana team with the name '" \o name \o "' and id '"
        \o ToString(teamID) \o "' already exists."

\* a CreateTeam that lost its lines 73-75
AddTeamFailsNever(err) == FALSE

\* CreateTeam, line 73: AddTeam failed, and not with the conflict of line 70
AddTeamFails(err) == err # Nil

\* a line 84 and a line 123 without the test of the message
TeamIsGoneNever(err) == FALSE

\* ReadTeam, line 84, and ExistsTeam, line 123: the team no longer exists
TeamIsGone(err) == err # Nil /\ err = NotFound

\* one loop of collectTeamUsers: the map of the list's users, or the error of the
\* first email met twice
RECURSIVE CollectList(_, _, _)
CollectList(list, i, acc) ==
    IF i > Len(list) THEN [err |-> Nil, users |-> acc]
    ELSE IF list[i] \in DOMAIN acc
    THEN [err |-> DuplicateError(list[i]), users |-> EmptyMap]
    ELSE CollectList(list, i + 1, (list[i] :> TeamUser(0, list[i])) @@ acc)

\* a collectTeamUsers without the sanity check: a later duplicate overwrites
RECURSIVE CollectListUnchecked(_, _, _)
CollectListUnchecked(list, i, acc) ==
    IF i > Len(list) THEN [err |-> Nil, users |-> acc]
    ELSE CollectListUnchecked(list, i + 1, (list[i] :> TeamUser(0, list[i])) @@ acc)

collectTeamUsersUnchecked(dd) ==
    [err |-> Nil,
     stateUsers |-> CollectListUnchecked(dd.state.users, 1, EmptyMap).users,
     configUsers |-> CollectListUnchecked(dd.config.users, 1, EmptyMap).users]

\* collectTeamUsers(d): state, config := d.GetChange("users")
collectTeamUsers(dd) ==
    LET s == CollectList(dd.state.users, 1, EmptyMap)
        c == CollectList(dd.config.users, 1, EmptyMap)
    IN  IF s.err # Nil
        THEN [err |-> s.err, stateUsers |-> EmptyMap, configUsers |-> EmptyMap]
        ELSE IF c.err # Nil
        THEN [err |-> c.err, stateUsers |-> EmptyMap, configUsers |-> EmptyMap]
        ELSE [err |-> Nil, stateUsers |-> s.users, configUsers |-> c.users]

\* a teamChanges whose first loop lost its "!ok" test: an Add for every configured user
teamChangesAddAll(stateUsers, configUsers) ==
    {adds \o removes :
        adds \in Orders({UserTeamChange(Add, configUsers[e]) : e \in DOMAIN configUsers}),
        removes \in Orders({UserTeamChange(Remove, stateUsers[e]) :
                              e \in DOMAIN stateUsers \ DOMAIN configUsers})}

\* a teamChanges whose loops both lost their test: every member is removed and
\* every configured user is added
teamChangesReplaceAll(stateUsers, configUsers) ==
    {adds \o removes :
        adds \in Orders({UserTeamChange(Add, configUsers[e]) : e \in DOMAIN configUsers}),
        removes \in Orders({UserTeamChange(Remove, stateUsers[e]) : e \in DOMAIN stateUsers})}

\* a teamChanges without its second loop: nobody is removed
teamChangesNoRemove(stateUsers, configUsers) ==
    Orders({UserTeamChange(Add, configUsers[e]) :
              e \in DOMAIN configUsers \ DOMAIN stateUsers})

\* teamChanges(stateUsers, configUsers): the change lists it can return, one for
\* each order in which the two ranges visit their maps; the Adds come first
teamChanges(stateUsers, configUsers) ==
    {adds \o removes :
        adds \in Orders({UserTeamChange(Add, configUsers[e]) :
                           e \in DOMAIN configUsers \ DOMAIN stateUsers}),
        removes \in Orders({UserTeamChange(Remove, stateUsers[e]) :
                              e \in DOMAIN stateUsers \ DOMAIN configUsers})}

\* a line 229 that goes on with an empty listing
FetchNeverFails(err) == FALSE

\* addIdsToTeamChanges, line 229: the directory listing failed
FetchFails(err) == err # Nil

\* a line 244 that treats the conflict response as applyTeamChanges does
CreateFailsUnlessConflict(err) == err # Nil /\ err # Conflict

\* a line 244 that goes on with the id of a failed createUser
CreateNeverFails(err) == FALSE

\* addIdsToTeamChanges, line 244: createUser failed
CreateFails(err) == err # Nil

\* a resolver that lost its line 239
ResolveNeverFails(ok, create) == FALSE

\* addIdsToTeamChanges, line 239: the user is unknown and may not be created
ResolveFails(ok, create) == ~ok /\ ~create

\* a line 242 that forgot the lookup's result
NeedsCreateAlways(ok, create) == create

\* addIdsToTeamChanges, line 242: the user is unknown and is created
NeedsCreate(ok, create) == ~ok /\ create

\* a line 265 that does not let the conflict response pass
ApplyAbortsOnConflict(err) == err # Nil

\* a line 265 that lets every error pass
ApplyNeverAborts(err) == FALSE

\* applyTeamChanges, line 265: the error that ends the batch
ApplyAborts(err) == err # Nil /\ err # Conflict

\* a switch with its two cases exchanged
ApplyCallSwapped(type) ==
    CASE type \in {Add, Update} -> "RemoveMemberFromTeam"
      [] type = Remove -> "AddTeamMember"

\* applyTeamChanges, lines 259-264: the remote call a change leads to
ApplyCall(type) ==
    CASE type \in {Add, Update} -> "AddTeamMember"
      [] type = Remove -> "RemoveMemberFromTeam"

(* --------------------------- the framework ----------------------------- *)

\* helper/schema records the resource after a handler returned: all of the
\* configuration after Create or Update when an id is set (error or not), nothing
\* when the id is blank; after a successful Delete the resource is gone
Saved(handler, dd, err) ==
    IF dd.id = <<>> \/ (handler = "DeleteTeam" /\ err = Nil)
    THEN NoData
    ELSE IF handler \in {"CreateTeam", "UpdateTeam"}
    THEN [id |-> dd.id,
          state |-> [name |-> dd.config.name, email |-> dd.config.email,
                     users |-> dd.config.users],
          config |-> NoConfig]
    ELSE [dd EXCEPT !.config = NoConfig]

\* the handler of resource r returns err, leaving the resource data dd
Return(r, err, dd) ==
    /\ d' = [d EXCEPT ![r] = dd]
    /\ pc' = [pc EXCEPT ![r] = "returned"]
    /\ ret' = [ret EXCEPT ![r] = [err |-> err, exists |-> FALSE]]

\* the handler of resource q has started and not returned
InFlight(q) == pc[q] \notin {"idle", "returned"}

\* a handler of resource r starts on team t; it runs alone as long as no handler
\* of another resource is running
Begin(r, handler, t) ==
    /\ op' = [op EXCEPT ![r] = handler]
    /\ start' = [q \in Res |->
                    IF q = r
                    THEN [members |-> MembersOf(t), users |-> users,
                          synced |-> Range(d[r].state.users) = MemberEmails(t),
                          alone |-> \A p \in Res \ {r} : ~InFlight(p),
                          again |-> FALSE, changes |-> <<>>]
                    ELSE IF InFlight(q) THEN [start[q] EXCEPT !.alone = FALSE]
                    ELSE start[q]]
    /\ loc' = [loc EXCEPT ![r] = NoLoc]

\* the framework records what the handler left and drops the ResourceData
Record(r) ==
    /\ pc[r] = "returned"
    /\ d' = [d EXCEPT ![r] = IF op[r] = "ExistsTeam" /\ ret[r].err = Nil /\ ~ret[r].exists
                             THEN NoData
                             ELSE Saved(op[r], d[r], ret[r].err)]
    /\ applied' = [applied EXCEPT ![r] =
                      IF /\ op[r] \in {"CreateTeam", "UpdateTeam"}
                         /\ ret[r].err = Nil
                         /\ start[r].synced
                      THEN [applied |-> TRUE, users |-> d[r].config.users]
                      ELSE NoApplied]
    /\ pc' = [pc EXCEPT ![r] = "idle"]
    /\ op' = [op EXCEPT ![r] = "none"]
    /\ loc' = [loc EXCEPT ![r] = NoLoc]
    /\ ret' = [ret EXCEPT ![r] = NoRet]
    /\ log' = [log EXCEPT ![r] = <<>>]
    /\ start' = [start EXCEPT ![r] = NoStart]
    /\ UNCHANGED <<users, teams, drift, flaky>>

(* ------------------------------ CreateTeam ----------------------------- *)

\* CreateTeam up to its call of UpdateTeamMembers, on a configuration of cfgs
CreateTeam(r, cfgs) ==
    /\ pc[r] = "idle"
    /\ d[r].id = <<>>
    /\ NextTeamId <= MaxTeams
    /\ \E cfg \in cfgs : \E err \in AddTeamAnswers(cfg.name) :
         LET dd == [d[r] EXCEPT !.config = cfg]
             teamID == IF err = Nil THEN NextTeamId ELSE 0
         IN  /\ Begin(r, "CreateTeam", 0)
             /\ log' = [log EXCEPT ![r] = <<Call("AddTeam", teamID, cfg.name, err)>>]
             /\ teams' = IF err # Nil THEN teams
                         ELSE [teams EXCEPT ![teamID] =
                                  [exists |-> TRUE, used |-> TRUE, name |-> cfg.name,
                                   email |-> cfg.email, members |-> {}]]
             /\ IF err = Conflict
                THEN Return(r, TeamExistsError(cfg.name, teamID), dd)
                ELSE IF AddTeamFails(err)
                THEN Return(r, err, dd)
                ELSE /\ d' = [d EXCEPT ![r] = [dd EXCEPT !.id = FormatInt(teamID)]]
                     /\ pc' = [pc EXCEPT ![r] = "members"]
                     /\ UNCHANGED ret
    /\ UNCHANGED <<users, applied, drift, flaky>>

(* ------------------------------ UpdateTeam ----------------------------- *)

HasChange(dd, key) == dd.state[key] # dd.config[key]

\* a line 102 that looks at the name only
NameChanged(dd) == HasChange(dd, "name")

\* UpdateTeam, line 102: the name or the email changed
TeamChanged(dd) == HasChange(dd, "name") \/ HasChange(dd, "email")

\* UpdateTeam up to its call of UpdateTeamMembers, on a configuration of cfgs
UpdateTeam(r, cfgs) ==
    /\ pc[r] = "idle"
    /\ d[r].id # <<>>
    /\ \E cfg \in cfgs :
         LET dd == [d[r] EXCEPT !.config = cfg]
             teamId == ParseInt(dd.id)
         IN  /\ Begin(r, "UpdateTeam", teamId)
             /\ IF TeamChanged(dd)
                THEN \E err \in TeamAnswers(teamId) :
                       /\ log' = [log EXCEPT ![r] =
                                     <<Call("UpdateTeam", teamId, cfg.name, err)>>]
                       /\ IF err # Nil
                          THEN /\ Return(r, err, dd)
                               /\ UNCHANGED teams
                          ELSE /\ teams' = [teams EXCEPT ![teamId].name = cfg.name,
                                                         ![teamId].email = cfg.email]
                               /\ d' = [d EXCEPT ![r] = dd]
                               /\ pc' = [pc EXCEPT ![r] = "members"]
                               /\ UNCHANGED ret
                ELSE /\ log' = [log EXCEPT ![r] = <<>>]
                     /\ d' = [d EXCEPT ![r] = dd]
                     /\ pc' = [pc EXCEPT ![r] = "members"]
                     /\ UNCHANGED <<teams, ret>>
    /\ UNCHANGED <<users, applied, drift, flaky>>

(* --------------------------- UpdateTeamMembers ------------------------- *)

\* UpdateTeamMembers, lines 167-172: collectTeamUsers and teamChanges
Collect(r) ==
    /\ pc[r] = "members"
    /\ LET c == collectTeamUsers(d[r])
       IN  IF c.err # Nil
           THEN /\ Return(r, c.err, d[r])
                /\ UNCHANGED loc
           ELSE /\ \E changes \in teamChanges(c.stateUsers, c.configUsers) :
                     loc' = [loc EXCEPT ![r].changes = changes,
                                        ![r].teamId = ParseInt(d[r].id)]
                /\ pc' = [pc EXCEPT ![r] = "users"]
                /\ UNCHANGED <<d, ret>>
    /\ UNCHANGED <<users, teams, op, log, start, applied, drift, flaky>>

\* addIdsToTeamChanges, lines 226-236: the directory snapshot.  With no change to
\* resolve both loops are empty and UpdateTeamMembers returns nil.
FetchUsers(r) ==
    /\ pc[r] = "users"
    /\ \E err \in UsersAnswers :
         /\ log' = [log EXCEPT ![r] = Append(@, Call("Users", 0, "", err))]
         /\ IF FetchFails(err)
            THEN /\ Return(r, err, d[r])
                 /\ UNCHANGED loc
            ELSE IF loc[r].changes = <<>>
            THEN /\ Return(r, Nil, d[r])
                 /\ loc' = [loc EXCEPT ![r].gUserMap = IF err = Nil THEN GUserMap
                                                       ELSE EmptyMap]
            ELSE /\ loc' = [loc EXCEPT ![r].gUserMap = IF err = Nil THEN GUserMap
                                                       ELSE EmptyMap,
                                       ![r].idx = 1]
                 /\ pc' = [pc EXCEPT ![r] = "resolve"]
                 /\ UNCHANGED <<d, ret>>
    /\ UNCHANGED <<users, teams, op, start, applied, drift, flaky>>

\* addIdsToTeamChanges, lines 237-251: one turn of the loop, then the return of
\* the output when it was the last
Resolve(r) ==
    /\ pc[r] = "resolve"
    /\ LET i == loc[r].idx
           change == loc[r].changes[i]
           email == change.User.Email
           ok == email \in DOMAIN loc[r].gUserMap
           create == d[r].config.create_users
           Resolved(id) ==
               [loc EXCEPT ![r].output =
                               Append(@, [change EXCEPT !.User.Id = id]),
                           ![r].idx = IF i = Len(loc[r].changes) THEN 1 ELSE i + 1]
           Goes == /\ pc' = [pc EXCEPT ![r] =
                                IF i = Len(loc[r].changes) THEN "apply" ELSE "resolve"]
                   /\ UNCHANGED <<d, ret>>
       IN  IF ResolveFails(ok, create)
           THEN /\ Return(r, UnknownUserError(email), d[r])
                /\ loc' = [loc EXCEPT ![r].output = <<>>]
                /\ UNCHANGED <<users, log>>
           ELSE IF NeedsCreate(ok, create)
           THEN \E err \in CreateUserAnswers(email) :
                  /\ log' = [log EXCEPT ![r] = Append(@, Call("CreateUser", 0, email, err))]
                  /\ users' = IF err = Nil THEN [users EXCEPT ![email] = NewUserId]
                              ELSE users
                  /\ IF CreateFails(err)
                     THEN /\ Return(r, err, d[r])
                          /\ loc' = [loc EXCEPT ![r].output = <<>>]
                     ELSE /\ loc' = Resolved(IF err = Nil THEN NewUserId ELSE 0)
                          /\ Goes
           ELSE /\ loc' = Resolved(IF ok THEN loc[r].gUserMap[email] ELSE 0)
                /\ Goes
                /\ UNCHANGED <<users, log>>
    /\ UNCHANGED <<teams, op, start, applied, drift, flaky>>

\* applyTeamChanges, lines 257-269: one turn of the loop, then the return
Apply(r) ==
    /\ pc[r] = "apply"
    /\ LET i == loc[r].idx
           change == loc[r].output[i]
           u == change.User
           t == loc[r].teamId
           call == ApplyCall(change.Type)
           answers == IF call = "AddTeamMember" THEN AddTeamMemberAnswers(t, u.Id)
                      ELSE RemoveMemberAnswers(t, u.Id)
       IN  \E err \in answers :
             /\ log' = [log EXCEPT ![r] = Append(@, Call(call, t, u.Id, err))]
             /\ teams' = IF err # Nil THEN teams
                         ELSE IF call = "AddTeamMember"
                         THEN [teams EXCEPT ![t].members = @ \cup {u.Id}]
                         ELSE [teams EXCEPT ![t].members = @ \ {u.Id}]
             /\ IF ApplyAborts(err)
                THEN /\ Return(r, err, d[r])
                     /\ UNCHANGED loc
                ELSE IF i = Len(loc[r].output)
                THEN /\ Return(r, Nil, d[r])
                     /\ UNCHANGED loc
                ELSE /\ loc' = [loc EXCEPT ![r].idx = i + 1]
                     /\ UNCHANGED <<d, pc, ret>>
    /\ UNCHANGED <<users, op, start, applied, drift, flaky>>

(* ------------------------------- ReadTeam ------------------------------ *)

\* ReadTeam up to its call of ReadTeamUsers
ReadTeam(r) ==
    /\ pc[r] = "idle"
    /\ d[r].id # <<>>
    /\ LET teamId == ParseInt(d[r].id)
       IN  /\ Begin(r, "ReadTeam", teamId)
           /\ \E err \in TeamAnswers(teamId) :
                /\ log' = [log EXCEPT ![r] = <<Call("Team", teamId, "", err)>>]
                /\ IF TeamIsGone(err)
                   THEN Return(r, Nil, [d[r] EXCEPT !.id = <<>>])
                   ELSE IF err # Nil
                   THEN Return(r, err, d[r])
                   ELSE /\ d' = [d EXCEPT ![r].state.name = teams[teamId].name]
                        /\ pc' = [pc EXCEPT ![r] = "readusers"]
                        /\ UNCHANGED ret
    /\ UNCHANGED <<users, teams, applied, drift, flaky>>

\* the login of the directory user with id i: createUser gives a user its email
\* as login
LoginOf(i) == EmailOf(i)

\* a line 157 that keeps the admin instead of dropping it
UserMapOfAdmin(teamUsers, grafAdmin) ==
    LET kept == SelectSeq(teamUsers, LAMBDA i : LoginOf(i) = grafAdmin)
    IN  [k \in 1..Len(kept) |-> EmailOf(kept[k])]

\* ReadTeamUsers, lines 153-161: userMap
UserMap(teamUsers, grafAdmin) ==
    LET kept == SelectSeq(teamUsers, LAMBDA i : LoginOf(i) # grafAdmin)
    IN  [k \in 1..Len(kept) |-> EmailOf(kept[k])]

\* ReadTeamUsers: the emails of the members whose login is not d.Get("admin_user"),
\* in the order the remote lists them; the schema declares no admin_user
ReadTeamUsers(r) ==
    /\ pc[r] = "readusers"
    /\ LET teamId == ParseInt(d[r].id)
           grafAdmin == NoValue
       IN  \E err \in TeamAnswers(teamId) :
             /\ log' = [log EXCEPT ![r] = Append(@, Call("TeamMembers", teamId, "", err))]
             /\ IF err # Nil
                THEN Return(r, err, d[r])
                ELSE \E teamUsers \in Orders(MembersOf(teamId)) :
                       Return(r, Nil, [d[r] EXCEPT
                                          !.state.users = UserMap(teamUsers, grafAdmin)])
    /\ UNCHANGED <<users, teams, op, loc, start, applied, drift, flaky>>

(* ------------------------ DeleteTeam, ExistsTeam ----------------------- *)

\* DeleteTeam: the error of client.DeleteTeam
DeleteTeam(r) ==
    /\ pc[r] = "idle"
    /\ d[r].id # <<>>
    /\ LET teamId == ParseInt(d[r].id)
       IN  /\ Begin(r, "DeleteTeam", teamId)
           /\ \E err \in TeamAnswers(teamId) :
                /\ log' = [log EXCEPT ![r] = <<Call("DeleteTeam", teamId, "", err)>>]
                /\ teams' = IF err = Nil
                            THEN [teams EXCEPT ![teamId].exists = FALSE,
                                               ![teamId].members = {}]
                            ELSE teams
                /\ Return(r, err, d[r])
    /\ UNCHANGED <<users, applied, drift, flaky>>

\* ExistsTeam: whether client.Team finds the team
ExistsTeam(r) ==
    /\ pc[r] = "idle"
    /\ d[r].id # <<>>
    /\ LET teamId == ParseInt(d[r].id)
       IN  /\ Begin(r, "ExistsTeam", teamId)
           /\ \E err \in TeamAnswers(teamId) :
                /\ log' = [log EXCEPT ![r] = <<Call("Team", teamId, "", err)>>]
                /\ pc' = [pc EXCEPT ![r] = "returned"]
                /\ ret' = [ret EXCEPT ![r] =
                              IF TeamIsGone(err) THEN [exists |-> FALSE, err |-> Nil]
                              ELSE IF err # Nil THEN [exists |-> FALSE, err |-> err]
                              ELSE [exists |-> TRUE, err |-> err]]
    /\ UNCHANGED <<users, teams, d, applied, drift, flaky>>

(* --------------------------- another actor ----------------------------- *)

\* between two handlers somebody else deletes a team
DriftDeleteTeam ==
    /\ \A r \in Res : pc[r] = "idle"
    /\ drift < MaxDrift
    /\ drift' = drift + 1
    /\ \E t \in {x \in TeamIds : teams[x].exists} :
         teams' = [teams EXCEPT ![t].exists = FALSE, ![t].members = {}]
    /\ applied' = [r \in Res |-> NoApplied]
    /\ UNCHANGED <<users, d, pc, op, loc, ret, log, start, flaky>>

\* between two handlers somebody else creates a team
DriftAddTeam ==
    /\ \A r \in Res : pc[r] = "idle"
    /\ drift < MaxDrift
    /\ NextTeamId <= MaxTeams
    /\ drift' = drift + 1
    /\ \E name \in {n \in Names : ~\E t \in TeamIds : teams[t].exists /\ teams[t].name = n} :
         teams' = [teams EXCEPT ![NextTeamId] =
                      [exists |-> TRUE, used |-> TRUE, name |-> name, email |-> "",
                       members |-> {}]]
    /\ UNCHANGED <<users, d, pc, op, loc, ret, log, start, applied, flaky>>

\* between two handlers somebody else adds a directory user to a team or removes a
\* member from it
DriftMember ==
    /\ \A r \in Res : pc[r] = "idle"
    /\ drift < MaxDrift
    /\ drift' = drift + 1
    /\ \E t \in {x \in TeamIds : teams[x].exists} :
         \/ \E i \in UserIds \ teams[t].members :
              teams' = [teams EXCEPT ![t].members = @ \cup {i}]
         \/ \E i \in teams[t].members :
              teams' = [teams EXCEPT ![t].members = @ \ {i}]
    /\ applied' = [r \in Res |-> NoApplied]
    /\ UNCHANGED <<users, d, pc, op, loc, ret, log, start, flaky>>

(* --------------------------- specifications ---------------------------- *)

\* directories whose users have the ids 1..k
Directories ==
    {u \in [Emails -> 0..Cardinality(Emails)] :
        LET known == {e \in Emails : u[e] # 0}
        IN  {u[e] : e \in known} = 1..Cardinality(known)}

\* one resource, not yet created, and a remote without teams
Init ==
    /\ users \in Directories
    /\ teams = [t \in TeamIds |-> NoTeam]
    /\ d = [r \in Res |-> NoData]
    /\ pc = [r \in Res |-> "idle"]
    /\ op = [r \in Res |-> "none"]
    /\ loc = [r \in Res |-> NoLoc]
    /\ ret = [r \in Res |-> NoRet]
    /\ log = [r \in Res |-> <<>>]
    /\ start = [r \in Res |-> NoStart]
    /\ applied = [r \in Res |-> NoApplied]
    /\ drift = 0
    /\ flaky = TRUE

Next ==
    \/ CreateTeam(1, MemberConfigs)
    \/ UpdateTeam(1, MemberConfigs)
    \/ Collect(1)
    \/ FetchUsers(1)
    \/ Resolve(1)
    \/ Apply(1)
    \/ ReadTeam(1)
    \/ ReadTeamUsers(1)
    \/ Record(1)
    \/ DriftMember

Spec == Init /\ [][Next]_vars

\* the caller of UpdateTeamMembers calls it once more with the ResourceData of a
\* call that returned nil (the apply is repeated before the state was recorded)
Retry(r) ==
    /\ pc[r] = "returned"
    /\ op[r] \in {"CreateTeam", "UpdateTeam"}
    /\ ret[r].err = Nil
    /\ ~start[r].again
    /\ pc' = [pc EXCEPT ![r] = "members"]
    /\ start' = [start EXCEPT ![r] =
                    [members |-> MembersOf(ParseInt(d[r].id)), users |-> users,
                     synced |-> Range(d[r].state.users) = MemberEmails(ParseInt(d[r].id)),
                     alone |-> start[r].alone,
                     again |-> TRUE, changes |-> loc[r].changes]]
    /\ loc' = [loc EXCEPT ![r] = NoLoc]
    /\ log' = [log EXCEPT ![r] = <<>>]
    /\ ret' = [ret EXCEPT ![r] = NoRet]
    /\ UNCHANGED <<users, teams, d, op, applied, drift, flaky>>

NextRetry ==
    \/ CreateTeam(1, MemberConfigs)
    \/ UpdateTeam(1, MemberConfigs)
    \/ Collect(1)
    \/ FetchUsers(1)
    \/ Resolve(1)
    \/ Apply(1)
    \/ Record(1)
    \/ Retry(1)

\* one resource whose successful reconciliations the caller may repeat
SpecRetry == Init /\ [][NextRetry]_vars

\* two resources, each created and refreshed, on two teams or on the same team, a
\* directory that knows one user at most, and a remote that serves every call it can
InitShared ==
    /\ users \in {u \in Directories : \A e \in Emails : u[e] # 0 => e = "a@x.com"}
    /\ \E m \in [TeamIds -> SUBSET UserIds] :
         teams = [t \in TeamIds |->
                    [exists |-> TRUE, used |-> TRUE, name |-> "team", email |-> "",
                     members |-> m[t]]]
    /\ \E t \in [Res -> TeamIds] :
         /\ t[1] = 1
         /\ d = [r \in Res |->
                   [id |-> FormatInt(t[r]),
                    state |-> [name |-> "team", email |-> "",
                               users |-> CHOOSE list \in Orders(MemberEmails(t[r])) : TRUE],
                    config |-> NoConfig]]
    /\ pc = [r \in Res |-> "idle"]
    /\ op = [r \in Res |-> "none"]
    /\ loc = [r \in Res |-> NoLoc]
    /\ ret = [r \in Res |-> NoRet]
    /\ log = [r \in Res |-> <<>>]
    /\ start = [r \in Res |-> NoStart]
    /\ applied = [r \in Res |-> NoApplied]
    /\ drift = 0
    /\ flaky = FALSE

\* each resource is updated once
NextShared ==
    \E r \in Res :
        \/ op[r] = "none" /\ UpdateTeam(r, SharedConfigs)
        \/ Collect(r)
        \/ FetchUsers(r)
        \/ Resolve(r)
        \/ Apply(r)

SpecShared == InitShared /\ [][NextShared]_vars

\* configurations that differ in the name and the email of the team
TeamConfigs ==
    [name : Names, email : TeamEmails, create_users : BOOLEAN,
     users : {list \in MemberSets : Range(list) \subseteq {"a@x.com"}}]

\* one resource through all of its handlers, and the teams that somebody else
\* creates and deletes
NextTeam ==
    \/ CreateTeam(1, TeamConfigs)
    \/ UpdateTeam(1, TeamConfigs)
    \/ Collect(1)
    \/ FetchUsers(1)
    \/ Resolve(1)
    \/ Apply(1)
    \/ ReadTeam(1)
    \/ ReadTeamUsers(1)
    \/ ExistsTeam(1)
    \/ DeleteTeam(1)
    \/ Record(1)
    \/ DriftDeleteTeam
    \/ DriftAddTeam

\* a resource not yet created and a directory that knows one user at most
InitTeam ==
    /\ Init
    /\ \A e \in Emails : users[e] # 0 => e = "a@x.com"

SpecTeam == InitTeam /\ [][NextTeam]_vars

\* two resources that manage the same team
InitSame ==
    /\ InitShared
    /\ \A r \in Res : d[r].id = FormatInt(1)
    /\ teams[2].members = {}

\* each resource is refreshed, any number of times, and then updated once, with
\* nothing to serialize the handlers of the two
NextSame ==
    \E r \in Res :
        \/ UpdateTeam(r, SharedConfigs)
        \/ Collect(r)
        \/ FetchUsers(r)
        \/ Resolve(r)
        \/ Apply(r)
        \/ ReadTeam(r)
        \/ ReadTeamUsers(r)
        \/ op[r] = "ReadTeam" /\ Record(r)

SpecSame == InitSame /\ [][NextSame]_vars

(* ------------------------------ the claims ----------------------------- *)

\* what the claims read: the running (or returned) reconciliation of resource r
Reconciles(r) == op[r] \in {"CreateTeam", "UpdateTeam"}

Returned(r) == pc[r] = "returned"

\* the previous and the desired keys of resource r
Previous(r) == Range(d[r].state.users)

Desired(r) == Range(d[r].config.users)

NoDuplicate(list) == Cardinality(Range(list)) = Len(list)

DuplicateFree(r) == NoDuplicate(d[r].state.users) /\ NoDuplicate(d[r].config.users)

\* the positions of UpdateTeamMembers that only a returned teamChanges leads to
Diffed(r) == pc[r] \in {"users", "resolve", "apply"}

\* how many entries of the change list are of this type and for this key
Entries(changes, type, key) ==
    Cardinality({i \in DOMAIN changes :
                    changes[i].Type = type /\ changes[i].User.Email = key})

MemberCallNames == {"AddTeamMember", "RemoveMemberFromTeam"}

MemberCalls(r) == SelectSeq(log[r], LAMBDA c : c.call \in MemberCallNames)

CreateCalls(r) == SelectSeq(log[r], LAMBDA c : c.call = "CreateUser")

\* C1: for duplicate-free previous and desired sets, teamChanges returns exactly
\* one Add for each key that is desired and not previous, exactly one Remove for
\* each key that is previous and not desired, and nothing else; for equal sets it
\* returns the empty list.
C1_DiffIsExact ==
    \A r \in Res :
        Diffed(r) /\ DuplicateFree(r) =>
            LET changes == loc[r].changes
            IN  /\ \A k \in Emails :
                     /\ Entries(changes, Add, k) =
                            (IF k \in Desired(r) \ Previous(r) THEN 1 ELSE 0)
                     /\ Entries(changes, Remove, k) =
                            (IF k \in Previous(r) \ Desired(r) THEN 1 ELSE 0)
                /\ \A i \in DOMAIN changes : changes[i].Type \in {Add, Remove}
                /\ Previous(r) = Desired(r) => changes = <<>>

\* a diff of overlapping sets: a key to add, a key to remove and a key to keep
C1_Witness ==
    /\ pc[1] = "users"
    /\ Desired(1) \ Previous(1) # {}
    /\ Previous(1) \ Desired(1) # {}
    /\ Previous(1) \cap Desired(1) # {}
    /\ Len(loc[1].changes) = 2

\* the error of a membership call that ends the batch
Fatal(resp) == resp # Nil /\ resp # Conflict

\* C2: a membership call answered with the conflict response counts as done: the
\* applier goes on with the next change of the batch (it returns after a conflict
\* only when that was the last change), and when the conflict is the only kind of
\* error met, every change is attempted and Apply returns nil.
C2_ConflictIsSuccess ==
    \A r \in Res :
        Reconciles(r) =>
            LET calls == MemberCalls(r)
                output == loc[r].output
            IN  /\ \A k \in DOMAIN calls :
                     calls[k].resp = Conflict =>
                        /\ Returned(r) /\ Len(calls) = k =>
                              k = Len(output) /\ ret[r].err = Nil
                        /\ k < Len(calls) =>
                              /\ calls[k + 1].arg = output[k + 1].User.Id
                              /\ calls[k + 1].call = ApplyCall(output[k + 1].Type)
                /\ ( /\ Returned(r)
                     /\ calls # <<>>
                     /\ \A k \in DOMAIN calls : calls[k].resp \in {Nil, Conflict} )
                   => ret[r].err = Nil /\ Len(calls) = Len(output)

\* a batch that returned nil although its first call met the conflict response
C2_Witness ==
    /\ Returned(1)
    /\ ret[1].err = Nil
    /\ Len(MemberCalls(1)) >= 2
    /\ MemberCalls(1)[1].resp = Conflict
    /\ MemberCalls(1)[2].resp = Nil

\* C3: a membership call that fails with another error than the conflict response
\* is the last call of the batch: Apply returns that error, attempts no later
\* change, does not repeat the call, and the changes applied before it stay
\* applied.
C3_ErrorAbortsBatch ==
    \A r \in Res :
        Reconciles(r) =>
            LET calls == MemberCalls(r)
            IN  \A k \in DOMAIN calls :
                    Fatal(calls[k].resp) =>
                        /\ Len(calls) = k
                        /\ Returned(r)
                        /\ ret[r].err = calls[k].resp
                        /\ \A j \in 1..(k - 1) :
                             calls[j].resp = Nil =>
                                IF calls[j].call = "AddTeamMember"
                                THEN calls[j].arg \in MembersOf(calls[j].team)
                                ELSE calls[j].arg \notin MembersOf(calls[j].team)

\* the second of three changes failed after the first was applied
C3_Witness ==
    /\ Returned(1)
    /\ Len(loc[1].output) = 3
    /\ Len(MemberCalls(1)) = 2
    /\ MemberCalls(1)[1].resp = Nil
    /\ MemberCalls(1)[2].resp = ServerError
    /\ ret[1].err = ServerError

\* the directory snapshot of resource r was fetched
Fetched(r) == \E i \in DOMAIN log[r] : log[r][i].call = "Users" /\ log[r][i].resp = Nil

\* a change of the batch cannot be resolved: its key is not in the snapshot and may
\* not be created, or its creation failed
Unresolvable(r) ==
    /\ Fetched(r)
    /\ \/ /\ ~d[r].config.create_users
          /\ \E i \in DOMAIN loc[r].changes :
                loc[r].changes[i].User.Email \notin DOMAIN loc[r].gUserMap
       \/ \E i \in DOMAIN log[r] : log[r][i].call = "CreateUser" /\ log[r][i].resp # Nil

\* C4: when a change of the batch cannot be resolved, the resolver returns an error
\* and no change at all, and no membership call is issued for any change of the
\* batch, the ones resolved before the failing one included.
C4_ResolveIsAtomic ==
    \A r \in Res :
        Reconciles(r) /\ Unresolvable(r) =>
            /\ MemberCalls(r) = <<>>
            /\ pc[r] \in {"resolve", "returned"}
            /\ Returned(r) => ret[r].err # Nil /\ loc[r].output = <<>>

\* the second change of a batch failed to resolve after the first was resolved
C4_Witness ==
    /\ Returned(1)
    /\ Unresolvable(1)
    /\ loc[1].idx = 2
    /\ loc[1].changes[1].User.Email \in DOMAIN loc[1].gUserMap

\* C5: CreateUser is called only with create_users set, and only for a key of the
\* change list that the directory snapshot does not hold; a key the snapshot holds
\* is resolved to its snapshot id.
C5_CreateIsGated ==
    \A r \in Res :
        Reconciles(r) =>
            /\ \A i \in DOMAIN log[r] :
                 log[r][i].call = "CreateUser" =>
                    /\ d[r].config.create_users
                    /\ \E j \in DOMAIN loc[r].changes :
                          loc[r].changes[j].User.Email = log[r][i].arg
                    /\ log[r][i].arg \notin DOMAIN loc[r].gUserMap
            /\ \A i \in DOMAIN loc[r].output :
                 LET key == loc[r].output[i].User.Email
                 IN  key \in DOMAIN loc[r].gUserMap =>
                        loc[r].output[i].User.Id = loc[r].gUserMap[key]

\* a batch with one key taken from the snapshot and one key created
C5_Witness ==
    /\ Returned(1)
    /\ ret[1].err = Nil
    /\ Len(CreateCalls(1)) = 1
    /\ \E i \in DOMAIN loc[1].output :
          loc[1].output[i].User.Email \in DOMAIN loc[1].gUserMap

\* the team a reconciliation of resource r works on
TeamOf(r) == CHOOSE t \in 0..MaxTeams : FormatInt(t) = d[r].id

\* the membership calls of resource r are one AddTeamMember for each key of adds and
\* one RemoveMemberFromTeam for each key of removes, each on the resource's team
\* and with the id the snapshot holds for the key or CreateUser returned for it
ExactCalls(r, adds, removes) ==
    LET calls == MemberCalls(r)
        IdOf(k) == IF k \in DOMAIN loc[r].gUserMap THEN loc[r].gUserMap[k] ELSE users[k]
        For(name, k) == {i \in DOMAIN calls :
                            /\ calls[i].call = name
                            /\ calls[i].arg = IdOf(k)
                            /\ calls[i].team = TeamOf(r)}
    IN  /\ \A k \in adds : Cardinality(For("AddTeamMember", k)) = 1
        /\ \A k \in removes : Cardinality(For("RemoveMemberFromTeam", k)) = 1
        /\ Len(calls) = Cardinality(adds) + Cardinality(removes)
        /\ \A k \in (adds \cup removes) \ DOMAIN loc[r].gUserMap :
             \E i \in DOMAIN log[r] :
                log[r][i].call = "CreateUser" /\ log[r][i].arg = k
        /\ (adds \cup removes) \subseteq DOMAIN loc[r].gUserMap => CreateCalls(r) = <<>>

NoCallFailed(r) == \A i \in DOMAIN log[r] : log[r][i].resp = Nil

\* C6 as stated, for duplicate-free lists: whenever no remote call of a
\* reconciliation failed, its membership calls are exactly the Adds of
\* desired\previous and the Removes of previous\desired.
C6_Original ==
    \A r \in Res :
        Reconciles(r) /\ Returned(r) /\ NoCallFailed(r) /\ DuplicateFree(r) =>
            ExactCalls(r, Desired(r) \ Previous(r), Previous(r) \ Desired(r))

\* C6, amended: in a reconciliation that returns no error and in which no remote
\* call failed, the membership calls are exactly one AddTeamMember(teamId, id(k))
\* for each key k of desired\previous and one RemoveMemberFromTeam(teamId, id(k))
\* for each key k of previous\desired, none for a key of both, and CreateUser is
\* called for the changed keys the directory lacks and for no other key.
C6_ExactCalls ==
    \A r \in Res :
        Reconciles(r) /\ Returned(r) /\ NoCallFailed(r) /\ ret[r].err = Nil =>
            ExactCalls(r, Desired(r) \ Previous(r), Previous(r) \ Desired(r))

\* a successful reconciliation that adds a created user, removes a member and
\* keeps one
C6_Witness ==
    /\ Returned(1)
    /\ NoCallFailed(1)
    /\ ret[1].err = Nil
    /\ Len(CreateCalls(1)) = 1
    /\ Desired(1) \ Previous(1) # {}
    /\ Previous(1) \ Desired(1) # {}
    /\ Previous(1) \cap Desired(1) # {}

\* the second call of UpdateTeamMembers on the same ResourceData, after the first
\* returned nil, has computed its change list
Repeated(r) == start[r].again /\ (Diffed(r) \/ (Returned(r) /\ loc[r].changes # <<>>))

\* C7 as stated: a second call of UpdateTeamMembers with the same previous and
\* desired pair, after a first call that returned nil, computes an empty change
\* list.
C7_Original ==
    \A r \in Res : Repeated(r) => loc[r].changes = <<>>

\* C7, amended: a second call with the same previous and desired pair, after a
\* first call that returned nil and on a remote that nobody else touched, computes
\* the changes of the first call again; it creates no user, each of its
\* membership calls is answered "409 Conflict", it leaves the members of the team
\* as they were and it fails only where the remote fails to serve a call.  The
\* change list is empty where the previous keys are the desired keys.
C7_RepeatChangesNothing ==
    \A r \in Res :
        /\ start[r].again =>
              /\ Diffed(r) => Range(loc[r].changes) = Range(start[r].changes)
              /\ CreateCalls(r) = <<>>
              /\ \A i \in DOMAIN MemberCalls(r) : MemberCalls(r)[i].resp = Conflict
              /\ MembersOf(ParseInt(d[r].id)) = start[r].members
              /\ Returned(r) => ret[r].err \in {Nil, ServerError}
        /\ Reconciles(r) /\ Diffed(r) /\ Previous(r) = Desired(r) => loc[r].changes = <<>>

\* a second call with one user to add and one to remove returned nil after two
\* membership calls
C7_Witness ==
    /\ start[1].again
    /\ Returned(1)
    /\ ret[1].err = Nil
    /\ Len(MemberCalls(1)) = 2
    /\ Desired(1) \ Previous(1) # {}
    /\ Previous(1) \ Desired(1) # {}

\* the emails a list names twice
Twice(list) == {list[i] : i \in {x \in DOMAIN list : \E y \in DOMAIN list : y # x /\ list[y] = list[x]}}

\* C10: when the previous or the desired list names a key twice, the
\* reconciliation returns the duplicate-key error for such a key before it
\* produces a change: it fetches no directory and calls neither CreateUser nor a
\* membership call.
C10_DuplicateFailsFirst ==
    \A r \in Res :
        Reconciles(r) /\ ~DuplicateFree(r) =>
            /\ pc[r] \in {"members", "returned"}
            /\ loc[r].changes = <<>>
            /\ \A i \in DOMAIN log[r] :
                 log[r][i].call \notin {"Users", "CreateUser"} \cup MemberCallNames
            /\ Returned(r) =>
                 \/ log[r] # <<>> /\ log[r][Len(log[r])].resp # Nil
                 \/ ret[r].err \in {DuplicateError(e) :
                                      e \in Twice(d[r].state.users) \cup Twice(d[r].config.users)}

\* an update whose configuration names a user twice, on a team with a member to
\* remove, returned the duplicate-key error
C10_Witness ==
    /\ Returned(1)
    /\ op[1] = "UpdateTeam"
    /\ NoDuplicate(d[1].state.users)
    /\ Previous(1) # {}
    /\ Twice(d[1].config.users) # {}
    /\ ret[1].err \in {DuplicateError(e) : e \in Twice(d[1].config.users)}

\* ReadTeam of resource r returned the members it read, right after a successful
\* CreateTeam or UpdateTeam that started from the team's membership
ReadAfterApply(r) ==
    /\ Returned(r)
    /\ op[r] = "ReadTeam"
    /\ ret[r].err = Nil
    /\ d[r].id # <<>>
    /\ applied[r].applied

\* C8 as stated: the users list ReadTeam records equals the configured list.
C8_Original ==
    \A r \in Res : ReadAfterApply(r) => d[r].state.users = applied[r].users

\* C8, amended: when the previous set is the team's membership and nobody else
\* touches the team, the users list that ReadTeam records after a successful
\* CreateTeam or UpdateTeam names exactly the configured users, each once, in the
\* order the remote lists them; a list of at most one user equals the configured
\* list.
C8_Converges ==
    \A r \in Res :
        ReadAfterApply(r) =>
            /\ Range(d[r].state.users) = Range(applied[r].users)
            /\ NoDuplicate(d[r].state.users)
            /\ Len(applied[r].users) <= 1 => d[r].state.users = applied[r].users

\* ReadTeam recorded the two users that the update before it configured
C8_Witness ==
    /\ ReadAfterApply(1)
    /\ Len(applied[1].users) = 2
    /\ Len(d[1].state.users) = 2

\* the keys a reconciliation of resource r has to change
Changed(r) == (Desired(r) \ Previous(r)) \cup (Previous(r) \ Desired(r))

\* the emails of the team's members when the handler of resource r started
StartEmails(r) ==
    {e \in Emails : start[r].users[e] # 0 /\ start[r].users[e] \in start[r].members}

\* whether a reconciliation of resource r, run alone on a remote that serves
\* every call and whose directory is dir, returns nil: its lists are
\* duplicate-free and every changed key is in the directory or may be created
AloneOK(r, dir) ==
    /\ DuplicateFree(r)
    /\ d[r].config.create_users \/ \A k \in Changed(r) : dir[k] # 0

\* the result and the members of resource r are those of a run alone, before the
\* other reconciliation or after it: it fails only if it fails alone on the
\* directory it started with, succeeds only if it succeeds alone on the directory
\* as it is now, and its team has the members the run alone leaves
AsAlone(r) ==
    /\ ret[r].err # Nil => ~AloneOK(r, start[r].users)
    /\ ret[r].err = Nil => AloneOK(r, users)
    /\ MemberEmails(ParseInt(d[r].id)) =
          IF ret[r].err = Nil
          THEN (StartEmails(r) \cup (Desired(r) \ Previous(r))) \ (Previous(r) \ Desired(r))
          ELSE StartEmails(r)

\* C9: reconciliations of two different teams that run at the same time each end
\* as they would alone, in every interleaving of their remote calls: with the
\* same result and the same members of their team.
C9_Original ==
    d[1].id # d[2].id =>
        \A r \in Res : Reconciles(r) /\ Returned(r) => AsAlone(r)

\* what holds of C9: a reconciliation ends as it would alone unless the other
\* one created, after its directory snapshot, a user that it has to create too
C9_UnlessBothCreate ==
    d[1].id # d[2].id =>
        \A r \in Res :
            /\ Reconciles(r)
            /\ Returned(r)
            /\ ~\E i \in DOMAIN log[r] : log[r][i].call = "CreateUser" /\ log[r][i].resp # Nil
            => AsAlone(r)

\* the membership calls of resource r so far are those of the first changes of
\* the resolved list, one for each, in its order
CallsFollow(r) ==
    LET calls == MemberCalls(r)
        out == loc[r].output
    IN  /\ Len(calls) <= Len(out)
        /\ \A i \in DOMAIN calls :
              /\ calls[i].call = IF out[i].Type \in {Add, Update}
                                 THEN "AddTeamMember" ELSE "RemoveMemberFromTeam"
              /\ calls[i].team = ParseInt(d[r].id)
              /\ calls[i].arg = out[i].User.Id
              /\ i < Len(calls) => calls[i].resp \in {Nil, Conflict}

\* C11: applyTeamChanges goes through the changes in the order it received them
\* and issues one call for each change it reaches, AddTeamMember for an Add or an
\* Update and RemoveMemberFromTeam for a Remove, on the team and the user id of
\* the change; it reaches a change only after the calls of all changes before it
\* were answered nil or "409 Conflict", and it returns nil only after the call of
\* the last change.
C11_AppliesInOrder ==
    \A r \in Res :
        Reconciles(r) /\ (pc[r] = "apply" \/ (Returned(r) /\ MemberCalls(r) # <<>>)) =>
            /\ CallsFollow(r)
            /\ Len(loc[r].output) = Len(loc[r].changes)
            /\ \A i \in DOMAIN loc[r].output :
                  /\ loc[r].output[i].Type = loc[r].changes[i].Type
                  /\ loc[r].output[i].User.Email = loc[r].changes[i].User.Email
            /\ pc[r] = "apply" => Len(MemberCalls(r)) = loc[r].idx - 1
            /\ Returned(r) /\ ret[r].err = Nil => Len(MemberCalls(r)) = Len(loc[r].output)

\* an Add that the remote answered "409 Conflict" was followed by a Remove, and
\* the reconciliation returned nil
C11_Witness ==
    /\ Returned(1)
    /\ ret[1].err = Nil
    /\ Len(MemberCalls(1)) = 2
    /\ MemberCalls(1)[1].call = "AddTeamMember"
    /\ MemberCalls(1)[1].resp = Conflict
    /\ MemberCalls(1)[2].call = "RemoveMemberFromTeam"
    /\ MemberCalls(1)[2].resp = Nil

\* the stage of a reconciliation a remote call belongs to
Stage(c) ==
    CASE c.call \in {"AddTeam", "UpdateTeam"} -> 0
      [] c.call = "Users" -> 1
      [] c.call = "CreateUser" -> 2
      [] c.call \in MemberCallNames -> 3

\* a remote call whose answer ends the reconciliation
Failed(c) == c.resp # Nil /\ ~(c.call \in MemberCallNames /\ c.resp = Conflict)

UsersCalls(r) == SelectSeq(log[r], LAMBDA c : c.call = "Users")

\* C12: a reconciliation fetches the directory once, after the diff and before
\* it resolves a change; it issues its CreateUser calls before its membership
\* calls, and no membership call before every change is resolved; a call that
\* fails is the last call of the reconciliation, which returns an error.
C12_StagesInOrder ==
    \A r \in Res :
        Reconciles(r) =>
            /\ \A i, j \in DOMAIN log[r] : i < j => Stage(log[r][i]) <= Stage(log[r][j])
            /\ Len(UsersCalls(r)) <= 1
            /\ pc[r] = "members" => UsersCalls(r) = <<>>
            /\ pc[r] \in {"resolve", "apply"} \/ CreateCalls(r) # <<>> \/ MemberCalls(r) # <<>>
                  => Len(UsersCalls(r)) = 1 /\ UsersCalls(r)[1].resp = Nil
            /\ MemberCalls(r) # <<>> => Len(loc[r].output) = Len(loc[r].changes)
            /\ \A i \in DOMAIN log[r] :
                  Failed(log[r][i]) => i = Len(log[r]) /\ Returned(r) /\ ret[r].err # Nil

\* the directory fetch of a reconciliation with a change to make failed
C12_Witness ==
    /\ Returned(1)
    /\ Reconciles(1)
    /\ loc[1].changes # <<>>
    /\ Len(UsersCalls(1)) = 1
    /\ UsersCalls(1)[1].resp = ServerError
    /\ ret[1].err = ServerError

\* C13: no AddTeamMember or RemoveMemberFromTeam call is issued with the user id
\* 0, and every change that reaches applyTeamChanges carries a user id other
\* than 0.
C13_IdsResolved ==
    \A r \in Res :
        Reconciles(r) =>
            /\ \A i \in DOMAIN MemberCalls(r) : MemberCalls(r)[i].arg # 0
            /\ pc[r] = "apply" => \A i \in DOMAIN loc[r].output : loc[r].output[i].User.Id # 0

\* a user that the reconciliation created was added to the team, and a user of
\* the directory was removed
C13_Witness ==
    /\ Returned(1)
    /\ Len(CreateCalls(1)) = 1
    /\ Len(MemberCalls(1)) = 2
    /\ \E i \in DOMAIN MemberCalls(1) :
          MemberCalls(1)[i].call = "RemoveMemberFromTeam" /\ MemberCalls(1)[i].resp = Nil

KeysOnce(list, Key(_)) ==
    \A i, j \in DOMAIN list : i # j => Key(list[i]) # Key(list[j])

\* C16: in one reconciliation no user key occurs twice in the change list, so no
\* key has an Add and a Remove; no two CreateUser calls are for the same key and
\* no two membership calls are for the same user.
C16_KeysOnce ==
    \A r \in Res :
        Reconciles(r) =>
            /\ KeysOnce(loc[r].changes, LAMBDA c : c.User.Email)
            /\ KeysOnce(loc[r].output, LAMBDA c : c.User.Email)
            /\ KeysOnce(CreateCalls(r), LAMBDA c : c.arg)
            /\ KeysOnce(MemberCalls(r), LAMBDA c : c.arg)

\* a reconciliation with a user to keep, a user to add and a user to remove
\* created the one and issued a membership call for each of the two
C16_Witness ==
    /\ Returned(1)
    /\ ret[1].err = Nil
    /\ Previous(1) \cap Desired(1) # {}
    /\ Len(loc[1].changes) = 2
    /\ loc[1].changes[1].Type = Add
    /\ loc[1].changes[2].Type = Remove
    /\ Len(CreateCalls(1)) = 1
    /\ Len(MemberCalls(1)) = 2

\* the position of the key in the change list of resource r
PositionOf(r, key) == CHOOSE i \in DOMAIN loc[r].changes : loc[r].changes[i].User.Email = key

\* C20: when a CreateUser call of a reconciliation fails, for the k-th change, the
\* reconciliation returns an error and has changed no membership of the team; the
\* users that its CreateUser calls created for changes before the k-th are in the
\* directory, and it has issued no CreateUser call for a change after the k-th.
C20_CreatedUsersStay ==
    \A r \in Res :
        Reconciles(r) =>
            \A i \in DOMAIN log[r] :
                log[r][i].call = "CreateUser" /\ log[r][i].resp # Nil =>
                    LET k == PositionOf(r, log[r][i].arg)
                    IN  /\ Returned(r)
                        /\ ret[r].err # Nil
                        /\ i = Len(log[r])
                        /\ MemberCalls(r) = <<>>
                        /\ MembersOf(ParseInt(d[r].id)) = start[r].members
                        /\ \A j \in DOMAIN CreateCalls(r) :
                              LET c == CreateCalls(r)[j]
                              IN  /\ PositionOf(r, c.arg) <= k
                                  /\ PositionOf(r, c.arg) < k =>
                                        /\ c.resp = Nil
                                        /\ start[r].users[c.arg] = 0
                                        /\ users[c.arg] # 0

\* the second of three changes failed at its CreateUser call: the user created
\* for the first is in the directory, the key of the third is not
C20_Witness ==
    /\ Returned(1)
    /\ ret[1].err = ServerError
    /\ Len(loc[1].changes) = 3
    /\ Len(CreateCalls(1)) = 2
    /\ CreateCalls(1)[1].resp = Nil
    /\ users[CreateCalls(1)[1].arg] # 0
    /\ CreateCalls(1)[2].resp = ServerError
    /\ users[loc[1].changes[3].User.Email] = 0

\* the reconciliation of resource r returns nil in this step, having started from
\* the members of its team and run while no other handler was running
ReturnsAlone(r) ==
    /\ pc[r] # "returned"
    /\ pc'[r] = "returned"
    /\ Reconciles(r)
    /\ ret'[r].err = Nil
    /\ start[r].synced
    /\ start[r].alone

\* C15, run one after the other: when a reconciliation that took the members of
\* its team as its previous set returns nil, and no other handler ran while it
\* did, the members of the team are its desired set.
C15_SerialKeepsLast ==
    [][\A r \in Res :
          ReturnsAlone(r) =>
              LET t == ParseInt(d'[r].id)
              IN  {e \in Emails : users'[e] # 0 /\ users'[e] \in teams'[t].members}
                     = Range(d'[r].config.users)]_vars

\* C15, not serialized: two reconciliations of one team, each started from the
\* members of the team, have returned nil and the members of the team are the
\* desired set of neither
C15_Witness ==
    /\ d[1].id = d[2].id
    /\ \A r \in Res :
          /\ Reconciles(r)
          /\ Returned(r)
          /\ ret[r].err = Nil
          /\ start[r].synced
          /\ MemberEmails(ParseInt(d[r].id)) # Desired(r)

\* C17: CreateTeam calls AddTeam first.  When AddTeam fails, with "409 Conflict"
\* or otherwise, CreateTeam returns an error, the id of the resource is not set
\* and no other call was issued.  When AddTeam succeeds the id of the resource is
\* the id of the new team before the members are reconciled, and when that
\* reconciliation fails CreateTeam returns an error while the team exists and the
\* id stays set.
C17_IdAfterAddTeam ==
    \A r \in Res :
        op[r] = "CreateTeam" =>
            LET c == log[r][1]
            IN  /\ Len(log[r]) >= 1
                /\ c.call = "AddTeam"
                /\ c.resp # Nil =>
                      /\ Returned(r)
                      /\ ret[r].err # Nil
                      /\ d[r].id = <<>>
                      /\ Len(log[r]) = 1
                /\ c.resp = Conflict => ret[r].err = TeamExistsError(d[r].config.name, c.team)
                /\ c.resp = Nil =>
                      /\ d[r].id = FormatInt(c.team)
                      /\ TeamExists(c.team)
                      /\ teams[c.team].name = d[r].config.name
                      /\ Returned(r) /\ (\E i \in DOMAIN log[r] : Failed(log[r][i]))
                            => ret[r].err # Nil

\* AddTeam succeeded and a call of the reconciliation of the members failed
C17_Witness ==
    /\ op[1] = "CreateTeam"
    /\ Returned(1)
    /\ log[1][1].resp = Nil
    /\ Len(log[1]) > 1
    /\ Failed(log[1][Len(log[1])])
    /\ ret[1].err # Nil
    /\ d[1].id # <<>>
    /\ TeamExists(ParseInt(d[1].id))

UpdateCalls(r) == SelectSeq(log[r], LAMBDA c : c.call = "UpdateTeam")

\* the configured name or email of resource r is not the recorded one
NameOrEmailChanged(r) ==
    \/ d[r].state.name # d[r].config.name
    \/ d[r].state.email # d[r].config.email

\* what C18 says of the calls of UpdateTeam: the team is updated if and only if
\* the name or the email changed; when that call fails UpdateTeam returns its
\* error after no other call, and else it goes on to UpdateTeamMembers
UpdatesIfChanged(r) ==
    /\ Len(UpdateCalls(r)) = IF NameOrEmailChanged(r) THEN 1 ELSE 0
    /\ \A i \in DOMAIN log[r] : log[r][i].call = "UpdateTeam" => i = 1
    /\ UpdateCalls(r) # <<>> /\ UpdateCalls(r)[1].resp # Nil =>
          /\ Returned(r)
          /\ ret[r].err = UpdateCalls(r)[1].resp
          /\ Len(log[r]) = 1
    /\ Returned(r) /\ (UpdateCalls(r) = <<>> \/ UpdateCalls(r)[1].resp = Nil) =>
          \/ Len(UsersCalls(r)) = 1
          \/ ret[r].err \in {DuplicateError(e) : e \in Emails}

\* C18 as stated: the calls of UpdateTeam, and after an update that returned nil
\* the team exists under the id of the resource and has the configured name.
C18_Original ==
    \A r \in Res :
        op[r] = "UpdateTeam" =>
            /\ UpdatesIfChanged(r)
            /\ Returned(r) /\ ret[r].err = Nil =>
                  /\ d[r].id # <<>>
                  /\ TeamExists(ParseInt(d[r].id))
                  /\ teams[ParseInt(d[r].id)].name = d[r].config.name

\* C18, amended: the calls of UpdateTeam, and after an update that returned nil
\* the resource has its id; when the name or the email changed, the team of that
\* id was updated and has the configured name and email.
C18_UpdatesIfChanged ==
    \A r \in Res :
        op[r] = "UpdateTeam" =>
            /\ UpdatesIfChanged(r)
            /\ Returned(r) /\ ret[r].err = Nil =>
                  /\ d[r].id # <<>>
                  /\ NameOrEmailChanged(r) =>
                        /\ UpdateCalls(r)[1].team = ParseInt(d[r].id)
                        /\ TeamExists(ParseInt(d[r].id))
                        /\ teams[ParseInt(d[r].id)].name = d[r].config.name
                        /\ teams[ParseInt(d[r].id)].email = d[r].config.email

\* an update of the name returned nil after it had added a member
C18_Witness ==
    /\ op[1] = "UpdateTeam"
    /\ Returned(1)
    /\ ret[1].err = Nil
    /\ HasChange(d[1], "name")
    /\ Len(UpdateCalls(1)) = 1
    /\ Len(MemberCalls(1)) = 1

\* resource r looks the team up in this step, as ReadTeam or ExistsTeam
LooksUp(r) == pc[r] = "idle" /\ pc'[r] # "idle" /\ op'[r] \in {"ReadTeam", "ExistsTeam"}

\* C19: when client.Team answers "404 Not Found", ReadTeam blanks the id of the
\* resource and returns nil, leaving the recorded name and users, and ExistsTeam
\* returns false and nil; both return any other error and leave the id, the
\* name and the users.  ReadTeam reads the members only of a team it found.
C19_GoneTeam ==
    /\ [][\A r \in Res :
             LooksUp(r) =>
                 LET c == log'[r][1]
                 IN  /\ Len(log'[r]) = 1
                     /\ c.call = "Team"
                     /\ c.resp = NotFound =>
                           /\ pc'[r] = "returned"
                           /\ ret'[r] = [exists |-> FALSE, err |-> Nil]
                           /\ d'[r].state = d[r].state
                           /\ d'[r].id = IF op'[r] = "ReadTeam" THEN <<>> ELSE d[r].id
                     /\ c.resp \notin {Nil, NotFound} =>
                           /\ pc'[r] = "returned"
                           /\ ret'[r] = [exists |-> FALSE, err |-> c.resp]
                           /\ d'[r] = d[r]
                     /\ c.resp = Nil /\ op'[r] = "ExistsTeam" =>
                           /\ ret'[r] = [exists |-> TRUE, err |-> Nil]
                           /\ d'[r] = d[r]]_vars
    /\ [](\A r \in Res :
             op[r] = "ReadTeam" /\ log[r][1].resp # Nil => Len(log[r]) = 1 /\ Returned(r))

\* ReadTeam did not find its team: the id is blank, the recorded users are kept
C19_Witness ==
    /\ op[1] = "ReadTeam"
    /\ Returned(1)
    /\ log[1][1].resp = NotFound
    /\ ret[1].err = Nil
    /\ d[1].id = <<>>
    /\ d[1].state.users # <<>>

====
